---------------------------- MODULE Spec2Model ----------------------------
(***************************************************************************)
(* A model of bin/slm.js of patterns-cli: the template compiler, the       *)
(* markdown compiler with its two micro-syntaxes, the writer, the tree     *)
(* walker and the watcher's change handler.                                *)
(*                                                                         *)
(* Strings (paths, dotted variable names) are sequences of one-character   *)
(* strings, so that String.includes, String.replace, path.dirname and      *)
(* path.basename are computed as JavaScript computes them.                 *)
(***************************************************************************)
EXTENDS Integers, Sequences, FiniteSets, TLC

(***************************************************************************)
(* Bounds of the model.                                                    *)
(***************************************************************************)
\* Change events the watcher delivers in one behaviour.
MaxEvents == 2

(***************************************************************************)
(* String primitives.                                                      *)
(***************************************************************************)
\* String.prototype.includes: t occurs in s as a substring.
Includes(s, t) ==
  \E i \in 0..(Len(s) - Len(t)) : SubSeq(s, i + 1, i + Len(t)) = t

\* String.prototype.indexOf, 0 when t does not occur (positions count from 1).
IndexOf(s, t) ==
  IF Includes(s, t)
    THEN CHOOSE i \in 1..(Len(s) - Len(t) + 1) :
           /\ SubSeq(s, i, i + Len(t) - 1) = t
           /\ \A j \in 1..(i - 1) : SubSeq(s, j, j + Len(t) - 1) # t
    ELSE 0

\* String.prototype.replace with a string pattern: the FIRST occurrence only.
Replace(s, pat, rep) ==
  LET i == IndexOf(s, pat) IN
  IF i = 0 THEN s
  ELSE SubSeq(s, 1, i - 1) \o rep \o SubSeq(s, i + Len(pat), Len(s))

StartsWith(s, t) == Len(t) <= Len(s) /\ SubSeq(s, 1, Len(t)) = t

EndsWith(s, t) == Len(t) <= Len(s) /\ SubSeq(s, Len(s) - Len(t) + 1, Len(s)) = t

\* Position of the last "/" of p, 0 when there is none.
LastSlash(p) ==
  IF \E i \in 1..Len(p) : p[i] = "/"
    THEN CHOOSE i \in 1..Len(p) : p[i] = "/" /\ \A j \in (i + 1)..Len(p) : p[j] # "/"
    ELSE 0

\* path.dirname (POSIX) of a normalised path.
Dirname(p) ==
  LET k == LastSlash(p) IN
  IF k = 0 THEN <<".">> ELSE IF k = 1 THEN <<"/">> ELSE SubSeq(p, 1, k - 1)

\* path.basename(p).
Basename(p) == SubSeq(p, LastSlash(p) + 1, Len(p))

\* path.basename(p, ext): the extension is stripped only from the end.
BasenameExt(p, ext) ==
  LET b == Basename(p) IN
  IF EndsWith(b, ext) /\ Len(b) > Len(ext)
    THEN SubSeq(b, 1, Len(b) - Len(ext)) ELSE b

\* path.join of two normalised, non-empty parts.
Join(a, b) == a \o <<"/">> \o b


(***************************************************************************)
(* options(): the paths derived from config/global (a project with source  *)
(* directory "s", views directory "s/v" and distribution directory "d").   *)
(***************************************************************************)
Source == <<"s">>
Dist == <<"d">>
Ext == <<".", "s", "l", "m">>
Html == <<".", "h", "t", "m", "l">>
Views == Join(Source, <<"v">>)

(***************************************************************************)
(* The source tree.  Views: a.slm, b.slm, a/p.slm, a/q/r.slm and the       *)
(* markdown file n.md.  Outside the views: the pattern directories s/c/a   *)
(* and s/c/ab and the layout s/l.slm.                                      *)
(***************************************************************************)
Slm(name) == name \o Ext
NameA == <<"a">>
NameB == <<"b">>
NameP == <<"p">>
NameQ == <<"q">>
NameR == <<"r">>
NameMd == <<"n", ".", "m", "d">>
DirA == Join(Views, NameA)
DirQ == Join(DirA, NameQ)
Patterns == Join(Source, <<"c">>)

\* fs.readdirSync of each directory under the views root, in listing order.
Listing ==
  (Views :> <<NameA, Slm(NameA), Slm(NameB), NameMd>>)
    @@ (DirA :> <<Slm(NameP), NameQ>>)
    @@ (DirQ :> <<Slm(NameR)>>)

\* The template files that exist under the views root.
ViewFiles ==
  { Join(Views, Slm(NameA)), Join(Views, Slm(NameB)),
    Join(DirA, Slm(NameP)), Join(DirQ, Slm(NameR)) }

\* The paths the watcher's globs (source/**/*.slm, source/**/*.md) report.
ChangedPaths ==
  { Join(Views, Slm(NameA)),                           \* a top-level view
    Join(DirA, Slm(NameP)),                            \* under views, in a/
    Join(Views, NameMd),                               \* markdown under views
    Join(Join(Patterns, NameA), Slm(<<"h">>)),         \* pattern a
    Join(Join(Patterns, <<"a", "b">>), Slm(<<"h">>)),  \* pattern ab
    Join(Source, Slm(<<"l">>)) }                       \* a root layout

\* Outside development the handler never reads the changed path: one path
\* under the views and one outside them stand for all.
Reported(development) ==
  IF development THEN ChangedPaths
  ELSE {Join(Views, Slm(NameA)), Join(Source, Slm(<<"l">>))}

\* The distribution directories a run can find already made.
DistStates ==
  { {}, {Dist}, {Dist, Join(Dist, NameA)},
    {Dist, Join(Dist, NameA), Join(Join(Dist, NameA), NameQ)} }

(***************************************************************************)
(* Values of a compile.                                                    *)
(***************************************************************************)
Undefined == [k |-> "undefined", of |-> <<>>]
Empty == [k |-> "string", of |-> <<>>]
HtmlOf(file) == [k |-> "string", of |-> file]
NoPath == <<>>

VARIABLES
  watch,      \* args.watch
  dev,        \* process.env.NODE_ENV === 'development'
  nopa11y,    \* args.nopa11y
  bad,        \* the template files whose compile throws
  runpc,      \* run(): "start", "watching", "walking", "exit"
  views,      \* the view set run() read from the views directory
  events,     \* per change event: the changed path and what the handler did
  stacks,     \* per walk (0: run's, n: event n's): the frames of walk()
  mains,      \* the activations of main()
  distDirs,   \* the directories of the distribution tree
  distFiles,  \* the files of the distribution tree and their contents
  frags,      \* the files an include can name: what their engine makes of them
  mdpc,       \* compile.md: "idle", "rendered", "included", "done"
  mdIn,       \* the html marked rendered from the markdown file
  mdData,     \* compile.md's md, between its passes
  mdOut,      \* what compile.md returned
  mdLog,      \* the errors compile.md logged
  heap,       \* the objects templates pass as locals
  slmpc,      \* a view's compile: "idle", "start", "outer", "inner", "done"
  passed      \* what the view's template passed to include, as it was

buildVars == <<watch, dev, nopa11y, bad, runpc, views, events, stacks, mains,
               distDirs, distFiles>>
mdVars == <<frags, mdpc, mdIn, mdData, mdOut, mdLog>>
slmVars == <<heap, slmpc, passed>>
vars == <<buildVars, mdVars, slmVars>>

Walks == 0..MaxEvents

(***************************************************************************)
(* compile.slm(file): '' for a missing file, undefined when the template    *)
(* engine throws (caught and logged), else the html.  store holds, for     *)
(* each file that exists, what its engine makes of its text.               *)
(***************************************************************************)
CompileSlm(file, store) ==
  IF file \notin DOMAIN store THEN Empty ELSE store[file]

\* What the template engine makes of each view: it throws on the failing ones.
ViewStore(failing) ==
  [f \in ViewFiles |-> IF f \in failing THEN Undefined ELSE HtmlOf(f)]

(***************************************************************************)
(* write(file, data).                                                      *)
(***************************************************************************)
\* The destination of a source file.
DistPath(file) == Replace(Replace(file, Ext, Html), Views, Dist)

\* fs.existsSync of a directory: the working directory "." always exists.
ExistsDir(p, dirs) == p = <<".">> \/ p \in dirs

\* fs.mkdirSync(p), not recursive: ENOENT unless p's parent exists.
MkdirOk(p, dirs) == ExistsDir(Dirname(p), dirs)

\* fs.writeFileSync(path, data): the file now holds data.
WriteFile(files, path, data) ==
  {f \in files : f.path # path} \cup {[path |-> path, data |-> data]}

\* The outcome of write: the path returned (NoPath for undefined, after the
\* catch) and the distribution tree left behind.
Write(file, data, dirs, files) ==
  LET dist == DistPath(file)
      parent == Dirname(dist)
  IN
  IF ~ExistsDir(parent, dirs) /\ ~MkdirOk(parent, dirs)
    THEN [ret |-> NoPath, dirs |-> dirs, files |-> files]
  ELSE IF data = Undefined
    \* fs.writeFileSync(dist, undefined) throws; the directory was made
    THEN [ret |-> NoPath, dirs |-> dirs \cup {parent}, files |-> files]
  ELSE [ret |-> dist, dirs |-> dirs \cup {parent},
        files |-> WriteFile(files, dist, data)]


(***************************************************************************)
(* main(file): an activation is made when the file names the extension;    *)
(* compile.slm runs synchronously in the call, then main awaits.           *)
(***************************************************************************)
Activation(w, file, failing) ==
  [ev |-> w, file |-> file, pc |-> "compiled",
   data |-> CompileSlm(file, ViewStore(failing)),  \* compiled
   dist |-> NoPath,                           \* what write returned
   arg |-> NoPath,                            \* what pa11y.main was given
   audit |-> "none",                          \* how the audit ended
   ret |-> NoPath]                            \* what main returned

MainCall(w, file, failing) ==
  IF Includes(file, Ext) THEN {Activation(w, file, failing)} ELSE {}

\* The activations of walk or event w that have not returned.
Active(w, ms) == {m \in ms : m.ev = w /\ m.pc # "returned"}

\* await: the caller resumes only when the main it started has returned.
NoAwait(w, ms) == TRUE

Awaited(w, ms) == Active(w, ms) = {}

(***************************************************************************)
(* walk(file, dir).                                                        *)
(***************************************************************************)
\* file = (file.includes(dir)) ? file : path.join(dir, file)
WalkPath(file, dir) == IF Includes(file, dir) THEN file ELSE Join(dir, file)

\* Entering walk on a path: a file naming the extension goes to main, a
\* directory gets a frame whose loop runs from the last child down, and
\* anything else makes readdirSync throw, which walk catches and logs.
WalkEnter(w, path, stack, ms, failing) ==
  IF Includes(path, Ext)
    THEN [stack |-> stack, mains |-> ms \cup MainCall(w, path, failing)]
  ELSE IF path \in DOMAIN Listing
    THEN [stack |-> Append(stack, [path |-> path, i |-> Len(Listing[path])]),
          mains |-> ms]
  ELSE [stack |-> stack, mains |-> ms]

\* The activations walk w leaves behind when it resumes: its returned main
\* is consumed by the await.
Resumed(w, ms) == {m \in ms : ~(m.ev = w /\ m.pc = "returned")}

StartWalk(w) ==
  LET r == WalkEnter(w, WalkPath(Views, Views), <<>>, mains, bad) IN
  /\ stacks' = [stacks EXCEPT ![w] = r.stack]
  /\ mains' = r.mains

\* A frame whose loop has run out returns to the frame below it, whose loop
\* goes on; the walk the handler or run() awaits is the bottom frame.
RECURSIVE Unwind(_)
Unwind(stack) ==
  IF Len(stack) > 1 /\ stack[Len(stack)].i = 0
    THEN Unwind(SubSeq(stack, 1, Len(stack) - 1))
    ELSE stack

\* One iteration of the loop of the top frame: await walk(files[i], file).
WalkStep(w) ==
  /\ stacks[w] # <<>>
  /\ Awaited(w, mains)
  /\ LET stack == Unwind(stacks[w])
         n == Len(stack)
         top == stack[n]
     IN
     /\ top.i >= 1
     /\ LET child == WalkPath(Listing[top.path][top.i], top.path)
            below == [stack EXCEPT ![n].i = top.i - 1]
            r == WalkEnter(w, child, below, Resumed(w, mains), bad)
        IN
        /\ stacks' = [stacks EXCEPT ![w] = r.stack]
        /\ mains' = r.mains
  /\ UNCHANGED <<mdVars, slmVars, watch, dev, nopa11y, bad, runpc, views, events, distDirs,
                 distFiles>>

\* Every loop is over: the walk returns to run() or to the change handler.
WalkReturn(w) ==
  /\ stacks[w] # <<>>
  /\ Awaited(w, mains)
  /\ LET stack == Unwind(stacks[w]) IN
     /\ Len(stack) = 1
     /\ stack[1].i = 0
  /\ stacks' = [stacks EXCEPT ![w] = <<>>]
  /\ mains' = Resumed(w, mains)
  /\ UNCHANGED <<mdVars, slmVars, watch, dev, nopa11y, bad, runpc, views, events, distDirs,
                 distFiles>>

(***************************************************************************)
(* main, after the compile: write, then the audit unless args.nopa11y.     *)
(***************************************************************************)
\* How an audit ends: pa11y.main reports what it finds, or fails and logs.
Pa11yOutcomes == {"pass", "fail"}

\* return dist
MainReturnAudited(dist, outcome) == IF outcome = "fail" THEN NoPath ELSE dist

MainReturn(dist, outcome) == dist

MainWrite(m) ==
  /\ m \in mains
  /\ m.pc = "compiled"
  /\ LET r == Write(m.file, m.data, distDirs, distFiles) IN
     /\ distDirs' = r.dirs
     /\ distFiles' = r.files
     /\ mains' = (mains \ {m}) \cup
          { IF nopa11y
              THEN [m EXCEPT !.dist = r.ret, !.pc = "returned",
                             !.ret = MainReturn(r.ret, "none")]
              ELSE [m EXCEPT !.dist = r.ret, !.pc = "audit", !.arg = r.ret] }
  /\ UNCHANGED <<mdVars, slmVars, watch, dev, nopa11y, bad, runpc, views, events, stacks>>

\* pa11y.main(dist) settles, its own failures caught and logged inside it;
\* main returns dist.

MainAudit(m) ==
  /\ m \in mains
  /\ m.pc = "audit"
  /\ \E o \in Pa11yOutcomes :
       mains' = (mains \ {m}) \cup
         {[m EXCEPT !.audit = o, !.pc = "returned",
                    !.ret = MainReturn(m.dist, o)]}
  /\ UNCHANGED <<mdVars, slmVars, watch, dev, nopa11y, bad, runpc, views, events, stacks,
                 distDirs, distFiles>>

(***************************************************************************)
(* run() and the watcher's change handler.                                 *)
(***************************************************************************)
\* views = fs.readdirSync(dir).filter(view => view.includes(opts.ext))
IsView(view) == Includes(view, Ext)

ViewSet == SelectSeq(Listing[Views], IsView)

Run ==
  /\ runpc = "start"
  /\ views' = ViewSet
  /\ IF watch
       THEN /\ runpc' = "watching"
            /\ UNCHANGED <<stacks, mains>>
       ELSE /\ runpc' = "walking"
            /\ StartWalk(0)
  /\ UNCHANGED <<mdVars, slmVars, watch, dev, nopa11y, bad, events, distDirs, distFiles>>

\* await walk(dir) has returned: cnsl.success and process.exit(0).
RunExit ==
  /\ runpc = "walking"
  /\ stacks[0] = <<>>
  /\ Awaited(0, mains)
  /\ runpc' = "exit"
  /\ UNCHANGED <<mdVars, slmVars, watch, dev, nopa11y, bad, views, events, stacks, mains,
                 distDirs, distFiles>>

\* hasView: some view's base name occurs in the changed file's directory
\* path, and that path does not contain the views directory.
HasView(changed, vs) ==
  \E k \in 1..Len(vs) :
    /\ Includes(Dirname(changed), BasenameExt(vs[k], Ext))
    /\ ~Includes(Dirname(changed), Views)

InViews(changed) == Includes(changed, Views)

\* path.join(dir, pttrn + opts.ext), pttrn the changed file's directory name
ViewOfChanged(changed) == changed

ViewOf(changed) == Join(Views, Basename(Dirname(changed)) \o Ext)

Change(changed) ==
  /\ runpc = "watching"
  /\ Len(events) < MaxEvents
  /\ LET n == Len(events) + 1
         hasView == HasView(changed, views)
         target == IF hasView THEN ViewOf(changed) ELSE changed
     IN
     IF dev /\ (hasView \/ InViews(changed))
       THEN \* main(changed), not awaited
            /\ events' = Append(events, [changed |-> changed,
                                         mode |-> "single", target |-> target])
            /\ mains' = mains \cup MainCall(n, target, bad)
            /\ UNCHANGED stacks
       ELSE \* await walk(dir)
            /\ events' = Append(events, [changed |-> changed,
                                         mode |-> "walk", target |-> Views])
            /\ StartWalk(n)
  /\ UNCHANGED <<mdVars, slmVars, watch, dev, nopa11y, bad, runpc, views, distDirs, distFiles>>

\* The markdown compiler and the locals of a template are not exercised.
MdIdle ==
  /\ frags = <<>>
  /\ mdpc = "idle"
  /\ mdIn = <<>>
  /\ mdData = <<>>
  /\ mdOut = Undefined
  /\ mdLog = {}

SlmIdle ==
  /\ heap = <<>>
  /\ slmpc = "idle"
  /\ passed = <<>>

\* A batch run meets any set of failing templates and any distribution tree;
\* a watch session, whose handlers overlap, no failing template or one, and
\* a distribution tree that is missing or complete.
WatchBad == {{}, {Join(DirA, Slm(NameP))}}

Init ==
  /\ watch \in BOOLEAN
  /\ dev \in BOOLEAN
  /\ nopa11y \in BOOLEAN
  /\ bad \in SUBSET ViewFiles
  /\ distDirs \in DistStates
  /\ watch => /\ bad \in WatchBad
              /\ ~nopa11y
              /\ distDirs \in {{}, UNION DistStates}
  /\ runpc = "start"
  /\ views = <<>>
  /\ events = <<>>
  /\ stacks = [w \in Walks |-> <<>>]
  /\ mains = {}
  /\ distFiles = {}
  /\ MdIdle
  /\ SlmIdle

Next ==
  \/ Run
  \/ RunExit
  \/ \E c \in Reported(dev) : Change(c)
  \/ \E w \in Walks : WalkStep(w)
  \/ \E w \in Walks : WalkReturn(w)
  \/ \E m \in mains : MainWrite(m)
  \/ \E m \in mains : MainAudit(m)

Spec == Init /\ [][Next]_vars


(***************************************************************************)
(* The markdown compiler.  Rendered html is a sequence of tokens: a run of *)
(* plain text, an include directive include{{ file }}, or a variable       *)
(* {{ dotted.path }}; s holds the text, the file or the dotted path.       *)
(***************************************************************************)
\* Tokens of the main document, at most.
MaxTokens == 2

Text(str) == [t |-> "text", s |-> str]
Inc(file) == [t |-> "inc", s |-> file]
Var(path) == [t |-> "var", s |-> path]

IsInc(tok) == tok.t = "inc"
IsVar(tok) == tok.t = "var"

\* Replacement patterns of String.prototype.replace, as text of a fragment:
\* $& stands for the match, $' for what follows the match.
DollarAmp == Text(<<"$", "&">>)
DollarAfter == Text(<<"$", "'">>)

This == <<"t", "h", "i", "s">>
ThisDot == This \o <<".">>
Dot(a, b) == a \o <<".">> \o b

\* options().config, by the dotted path of each leaf: config.a.b and config.t.
Config == (<< <<"a">>, <<"b">> >> :> <<"A", "B">>) @@ (<< <<"t">> >> :> <<"T">>)

\* The files an include directive names.
RefP == <<"p">>
RefX == <<"x", ".", "h", "t", "m", "l">>
RefM == <<"m", ".", "m", "d">>
RefZ == <<"z">>
PathP == Join(Source, Slm(RefP))
PathX == Join(Source, RefX)
PathM == Join(Source, RefM)

\* The dotted paths of the variables of a document.
VarPaths ==
  { Dot(This, <<"t">>),                  \* this.t
    Dot(Dot(This, <<"a">>), <<"b">>),    \* this.a.b
    <<"f">>,                             \* f
    Dot(Dot(<<"a">>, This), <<"b">>),    \* a.this.b
    Dot(This, <<"x">>),                  \* this.x: no config.x
    Dot(Dot(This, <<"x">>), <<"y">>),    \* this.x.y: no config.x
    Dot(Dot(This, <<"a">>), <<"x">>) }   \* this.a.x: no config.a.x

Tokens ==
  {Text(<<"w">>)} \cup {Inc(f) : f \in {RefP, RefX, RefM}}
    \cup {Var(v) : v \in VarPaths}

\* path.extname: from the last "." of the base name, '' when there is none
\* or the base name only starts with it.
Extname(file) ==
  LET b == Basename(file)
      dots == {i \in 1..Len(b) : b[i] = "."}
  IN
  IF dots = {} THEN <<>>
  ELSE LET k == CHOOSE i \in dots : \A j \in dots : j <= i IN
       IF k = 1 THEN <<>> ELSE SubSeq(b, k, Len(b))

\* String.prototype.split on a one-character separator.
RECURSIVE Split(_, _)
Split(str, sep) ==
  LET i == IndexOf(str, <<sep>>) IN
  IF i = 0 THEN <<str>>
  ELSE <<SubSeq(str, 1, i - 1)>> \o Split(SubSeq(str, i + 1, Len(str)), sep)

\* The replacement text of replace(element, compiled), its $ patterns put in.
RECURSIVE Expand(_, _, _)
Expand(rep, element, after) ==
  IF rep = <<>> THEN <<>>
  ELSE (IF Head(rep) = DollarAmp THEN <<element>>
        ELSE IF Head(rep) = DollarAfter THEN after
        ELSE <<Head(rep)>>) \o Expand(Tail(rep), element, after)

\* data.replace(element, compiled): the first occurrence of element only.
ReplaceToken(data, element, rep) ==
  IF \A i \in 1..Len(data) : data[i] # element THEN data
  ELSE LET i == CHOOSE j \in 1..Len(data) :
                  data[j] = element /\ \A k \in 1..(j - 1) : data[k] # element
           after == SubSeq(data, i + 1, Len(data))
       IN SubSeq(data, 1, i - 1) \o Expand(rep, element, after) \o after

\* A value as replace() inserts it: String(value).
Stringified(value) ==
  IF value.k = "undefined" THEN <<Text(<<"undefined">>)>>
  ELSE IF value.k = "object" THEN <<Text(<<"[object Object]">>)>>
  ELSE value.of

(***************************************************************************)
(* mrkdwn.vars.                                                            *)
(***************************************************************************)
Thrown == [k |-> "thrown", of |-> <<>>]
ConfigObject(at) == [k |-> "object", of |-> at]

\* obj[key]: a field of the configuration, undefined when there is none, and
\* undefined for any such key of a string.
Prop(obj, key) ==
  IF obj.k = "object"
    THEN LET q == Append(obj.of, key) IN
         IF q \in DOMAIN Config THEN [k |-> "string", of |-> <<Text(Config[q])>>]
         ELSE IF \E d \in DOMAIN Config : StartsWith(d, q)
           THEN ConfigObject(q)
         ELSE Undefined
    ELSE Undefined

\* The traversal that stops at a missing field instead of dereferencing it.
RECURSIVE TraverseOptional(_, _)
TraverseOptional(obj, variable) ==
  IF variable = <<>> \/ obj = Undefined THEN obj
  ELSE TraverseOptional(Prop(obj, Head(variable)), Tail(variable))

\* while (variable.length) obj = obj[variable.shift()]: a TypeError when obj
\* is undefined and a key is left.
RECURSIVE Traverse(_, _)
Traverse(obj, variable) ==
  IF variable = <<>> THEN obj
  ELSE IF obj = Undefined THEN Thrown
  ELSE Traverse(Prop(obj, Head(variable)), Tail(variable))

\* element.includes('this.')
IsLocalized(path) == Includes(path, ThisDot)

\* The keys of an element: 'this.' taken out once, then split on '.'.
Variable(path) == Split(Replace(path, ThisDot, <<>>), ".")

\* blocks.forEach over the elements left, on the data so far.
RECURSIVE VarsEach(_, _)
VarsEach(data, blocks) ==
  IF blocks = <<>> THEN [k |-> "string", of |-> data]
  ELSE IF ~IsLocalized(Head(blocks).s) THEN VarsEach(data, Tail(blocks))
  ELSE LET obj == Traverse(ConfigObject(<<>>), Variable(Head(blocks).s)) IN
       IF obj = Thrown THEN Thrown
       ELSE VarsEach(ReplaceToken(data, Head(blocks), Stringified(obj)),
                     Tail(blocks))

MrkdwnVars(data) == VarsEach(data, SelectSeq(data, IsVar))

(***************************************************************************)
(* include, the compile handlers and mrkdwn.slm.                           *)
(***************************************************************************)
\* compile.default: the file as it is, '' when it is missing.
CompileDefault(file, store) ==
  IF file \notin DOMAIN store THEN Empty ELSE store[file]

RECURSIVE CompileMd(_, _)
RECURSIVE Include(_, _)
RECURSIVE SlmEach(_, _, _)

\* blocks.forEach: each directive is replaced by its compiled file.
SlmEach(data, blocks, store) ==
  IF blocks = <<>> THEN data
  ELSE SlmEach(ReplaceToken(data, Head(blocks),
                            Stringified(Include(Head(blocks).s, store))),
               Tail(blocks), store)

MrkdwnSlm(data, store) == SlmEach(data, SelectSeq(data, IsInc), store)

\* The handler include picks: the extension without its dot, slm when the
\* file names none, and default when compile has no such handler.
Handler(file) ==
  LET extname == IF Extname(file) = <<>> THEN Ext ELSE Extname(file)
      handler == Replace(extname, <<".">>, <<>>)
  IN
  IF handler = <<"s", "l", "m">> THEN "slm"
  ELSE IF handler = <<"m", "d">> THEN "md"
  ELSE "default"

\* The file include compiles: the extension added when none, under source.
Resolved(file) ==
  Join(Source, IF Extname(file) = <<>> THEN file \o Ext ELSE file)

Include(file, store) ==
  IF Handler(file) = "slm" THEN CompileSlm(Resolved(file), store)
  ELSE IF Handler(file) = "md" THEN CompileMd(Resolved(file), store)
  ELSE CompileDefault(Resolved(file), store)

\* compile.md: '' when the file is missing; the rendered html through
\* mrkdwn.slm, then mrkdwn.vars; undefined when anything threw (logged).
CompileMd(file, store) ==
  IF file \notin DOMAIN store THEN Empty
  ELSE LET md == MrkdwnVars(MrkdwnSlm(store[file].of, store)) IN
       IF md = Thrown THEN Undefined ELSE md

(***************************************************************************)
(* compile.md on the main document, pass by pass.                          *)
(***************************************************************************)
Str(tokens) == [k |-> "string", of |-> tokens]

\* What the partial p.slm, the raw file x.html and the markdown file m.md
\* can hold; p.slm may be missing, or make the template engine throw.
StoresP == {<<>>, PathP :> Undefined, PathP :> Str(<<Var(Dot(This, <<"t">>))>>)}
StoresX ==
  { PathX :> Str(toks) :
      toks \in { <<Text(<<"r">>)>>, <<Var(Dot(This, <<"t">>))>>,
                 <<Inc(RefP)>>, <<DollarAmp>>, <<DollarAfter>> } }
StoreM == PathM :> Str(<<Var(Dot(This, <<"t">>)), Inc(RefX)>>)

Documents == UNION {[1..n -> Tokens] : n \in 1..MaxTokens}

InitMd ==
  /\ mdIn \in Documents
  /\ frags \in {sp @@ sx @@ StoreM : sp \in StoresP, sx \in StoresX}
  /\ mdpc = "rendered"
  /\ mdData = mdIn
  /\ mdOut = Undefined
  /\ mdLog = {}
  /\ SlmIdle
  /\ watch = FALSE /\ dev = FALSE /\ nopa11y = FALSE /\ bad = {}
  /\ runpc = "idle" /\ views = <<>> /\ events = <<>>
  /\ stacks = [w \in Walks |-> <<>>]
  /\ mains = {} /\ distDirs = {} /\ distFiles = {}

\* md = mrkdwn.slm(md)
MdSlm ==
  /\ mdpc = "rendered"
  /\ mdData' = MrkdwnSlm(mdData, frags)
  /\ mdpc' = "included"
  /\ UNCHANGED <<frags, mdIn, mdOut, mdLog, buildVars, slmVars>>

\* md = mrkdwn.vars(md); return md, or the catch: cnsl.error and undefined.
MdVars ==
  /\ mdpc = "included"
  /\ LET md == MrkdwnVars(mdData) IN
     IF md = Thrown
       THEN /\ mdOut' = Undefined
            /\ mdLog' = mdLog \cup {"Slm failed (compile.md)"}
            /\ UNCHANGED mdData
       ELSE /\ mdOut' = md
            /\ mdData' = md.of
            /\ UNCHANGED mdLog
  /\ mdpc' = "done"
  /\ UNCHANGED <<frags, mdIn, buildVars, slmVars>>

NextMd == MdSlm \/ MdVars

SpecMd == InitMd /\ [][NextMd]_vars

(***************************************************************************)
(* The locals of compile.slm.  An object is the set of its entries; heap   *)
(* holds the object a view's compile makes by default ("locals") and the   *)
(* object the view's template passes to include ("arg").                   *)
(***************************************************************************)
Entry(key, val) == [key |-> key, val |-> val]

\* Object.assign(target, source): source's entries over target's, in target.
ObjectAssign(target, source) ==
  {e \in target : \A f \in source : f.key # e.key} \cup source

\* The entries of options().config.
ConfigEntries ==
  { Entry(d[1], IF Len(d) = 1 THEN Config[d] ELSE <<"[object Object]">>) :
      d \in DOMAIN Config }

\* locals.include = include
IncludeEntry == Entry(<<"include">>, <<"function">>)

\* The object compile.slm(file, locals) leaves in locals: untouched when the
\* file is missing, else the configuration assigned into it, and include.
SlmLocals(file, locals, store) ==
  IF file \notin DOMAIN store THEN locals
  ELSE ObjectAssign(ObjectAssign(locals, ConfigEntries), {IncludeEntry})

\* include(file, locals): only the slm handler touches the locals.
IncludeLocals(file, locals, store) ==
  IF Handler(file) = "slm" THEN SlmLocals(Resolved(file), locals, store)
  ELSE locals

\* The mappings a template passes: t (a key of the configuration too) and u.
PassedLocals ==
  { t \cup u : t \in {{}} \cup {{Entry(<<"t">>, v)} : v \in {<<"1">>, <<"2">>}},
               u \in {{}} \cup {{Entry(<<"u">>, v)} : v \in {<<"1">>, <<"2">>}} }

Refs == {RefP, RefX, RefM, RefZ}
ViewA == Join(Views, Slm(NameA))

InitSlm ==
  /\ frags \in {(ViewA :> HtmlOf(ViewA)) @@ sp @@ (PathX :> Str(<<Text(<<"r">>)>>))
                  @@ StoreM : sp \in StoresP}
  /\ passed \in {[ref |-> r, obj |-> o] : r \in Refs, o \in PassedLocals}
  /\ heap = [o \in {"locals", "arg"} |-> IF o = "arg" THEN passed.obj ELSE {}]
  /\ slmpc = "start"
  /\ mdpc = "idle" /\ mdIn = <<>> /\ mdData = <<>> /\ mdOut = Undefined
  /\ mdLog = {}
  /\ watch = FALSE /\ dev = FALSE /\ nopa11y = FALSE /\ bad = {}
  /\ runpc = "idle" /\ views = <<>> /\ events = <<>>
  /\ stacks = [w \in Walks |-> <<>>]
  /\ mains = {} /\ distDirs = {} /\ distFiles = {}

\* main calls compile.slm(view): locals defaults to a new object.
SlmView ==
  /\ slmpc = "start"
  /\ heap' = [heap EXCEPT !["locals"] = SlmLocals(ViewA, {}, frags)]
  /\ slmpc' = "outer"
  /\ UNCHANGED <<passed, buildVars, mdVars>>

\* The view's template calls include(ref, arg).
SlmInclude ==
  /\ slmpc = "outer"
  /\ heap' = [heap EXCEPT !["arg"] = IncludeLocals(passed.ref, @, frags)]
  /\ slmpc' = "inner"
  /\ UNCHANGED <<passed, buildVars, mdVars>>

\* The partial's template passes its own locals down: include(ref, this).
SlmNested ==
  /\ slmpc = "inner"
  /\ Handler(passed.ref) = "slm"
  /\ CompileSlm(Resolved(passed.ref), frags) \notin {Empty, Undefined}
  /\ \E r \in Refs : heap' = [heap EXCEPT !["arg"] = IncludeLocals(r, @, frags)]
  /\ slmpc' = "nested"
  /\ UNCHANGED <<passed, buildVars, mdVars>>

\* The include returns to the view's template, which still holds arg.
SlmReturn ==
  /\ slmpc \in {"inner", "nested"}
  /\ slmpc' = "done"
  /\ UNCHANGED <<heap, passed, buildVars, mdVars>>

NextSlm == SlmView \/ SlmInclude \/ SlmNested \/ SlmReturn

SpecSlm == InitSlm /\ [][NextSlm]_vars

(***************************************************************************)
(* Properties of the change handler, the walk, main and write.             *)
(***************************************************************************)
Events == 1..Len(events)

\* The activations of main that are past the write.
Written == {m \in mains : m.pc \in {"audit", "returned"}}

\* The distribution tree holds the html of the source file.
InDist(file) == [path |-> DistPath(file), data |-> HtmlOf(file)] \in distFiles

\* The changed file's directory is named after view, and is not the views
\* directory itself.
Owns(view, changed) ==
  /\ Basename(Dirname(changed)) = BasenameExt(view, Ext)
  /\ Dirname(changed) # Views

\* The changed file's directory is named after view, and its path does not
\* contain the path of the views directory.
OwnsOutside(view, changed) ==
  /\ Basename(Dirname(changed)) = BasenameExt(view, Ext)
  /\ ~Includes(Dirname(changed), Views)

\* The handler sent event n to the single-file path with exactly this file,
\* which is written once its compile succeeded and its write is over.
RoutedTo(n, file) ==
  /\ events[n].mode = "single"
  /\ events[n].target = file
  /\ stacks[n] = <<>>
  /\ {m.file : m \in {x \in mains : x.ev = n}} = {file}
  /\ \A m \in Written : m.ev = n /\ m.data # Undefined => InDist(file)

UnderViews(changed) == StartsWith(changed, Views \o <<"/">>)

\* C2, as claimed: a change walks the whole views directory exactly when
\* development is off, or no view owns the changed path and it is not under
\* the views directory; otherwise exactly one file goes down the single-file
\* path and nothing is walked.
C2_WalkIffUnowned ==
  \A n \in Events :
    LET c == events[n].changed
        owned == \E k \in 1..Len(views) : Owns(views[k], c)
    IN
    /\ events[n].mode = "walk" <=> (~dev \/ (~owned /\ ~UnderViews(c)))
    /\ events[n].mode = "single" /\ ~owned /\ UnderViews(c)
         => events[n].target = c

\* C3, as claimed: when a walk of the views directory is over, every
\* template whose compile did not fail is written to the distribution tree.
C3_OthersWritten ==
  /\ runpc = "exit" => \A f \in ViewFiles \ bad : InDist(f)
  /\ \A n \in Events :
       events[n].mode = "walk" /\ stacks[n] = <<>> /\ Awaited(n, mains)
         => \A f \in ViewFiles \ bad : InDist(f)

\* C5, as claimed: write(source, html), whatever the distribution tree was,
\* leaves the destination's directory made and the html written at the
\* destination, and returns the destination.
C5_WriteMakesDirectory ==
  \A m \in Written :
    m.data # Undefined =>
      /\ m.dist = DistPath(m.file)
      /\ Dirname(DistPath(m.file)) \in distDirs
      /\ [path |-> DistPath(m.file), data |-> m.data] \in distFiles

C10_NoOverlapInWalk ==
  /\ \A w \in Walks : Cardinality(Active(w, mains)) <= 1
  /\ \A m1, m2 \in mains :
       m1 # m2 /\ m1.pc # "returned" /\ m2.pc # "returned" => m1.ev # m2.ev

\* A walk's main and the main a later change started, not awaited, are both
\* between compile and return.
C10_Witness ==
  \E m1, m2 \in mains :
    /\ m1.ev # m2.ev
    /\ m1.pc # "returned" /\ m2.pc # "returned"
    /\ stacks[m1.ev] # <<>>
    /\ events[m2.ev].mode = "single"


(***************************************************************************)
(* Properties of the markdown compiler.                                    *)
(***************************************************************************)
\* The tokens of a sequence.
Range(seq) == {seq[i] : i \in 1..Len(seq)}

\* The dotted path begins with this.
StartsWithThis(path) == StartsWith(path, ThisDot)

\* The keys that follow this. in a dotted path.
KeysOf(path) == Split(SubSeq(path, Len(ThisDot) + 1, Len(path)), ".")

\* The configuration has a value at these keys: a leaf, or an object.
Defined(keys) == \E d \in DOMAIN Config : StartsWith(d, keys)

\* Some field of the path, at whatever position, does not exist.
MissingField(path) ==
  \E j \in 1..Len(KeysOf(path)) : ~Defined(SubSeq(KeysOf(path), 1, j))

\* Some field before the last of the path does not exist.
MissingIntermediate(path) ==
  \E j \in 1..(Len(KeysOf(path)) - 1) : ~Defined(SubSeq(KeysOf(path), 1, j))

\* The rendered html as mrkdwn.vars receives it.
Included == MrkdwnSlm(mdIn, frags)

\* The {{ this.* }} variables mrkdwn.vars receives.
ThisVars == {tok \in Range(Included) : IsVar(tok) /\ StartsWithThis(tok.s)}

\* Each token of the document in its place, each include directive replaced
\* by the file it names, compiled.
RECURSIVE EachIncluded(_, _)
EachIncluded(data, store) ==
  IF data = <<>> THEN <<>>
  ELSE (IF IsInc(Head(data)) THEN Stringified(Include(Head(data).s, store))
        ELSE <<Head(data)>>) \o EachIncluded(Tail(data), store)

\* C6, as claimed: every include directive of the rendered html, identical
\* ones too, is replaced by its own compiled fragment before the variables
\* are substituted, and no {{ this.* }} variable of an included fragment is
\* left in the output.
C6_IncludesThenVars ==
  /\ mdpc = "included" => mdData = EachIncluded(mdIn, frags)
  /\ mdpc = "done" /\ mdOut # Undefined
       => \A tok \in Range(mdOut.of) : ~(IsVar(tok) /\ StartsWithThis(tok.s))

\* C7, as claimed: mrkdwn.vars substitutes a variable if and only if its
\* dotted path begins with this., by the configuration value at the rest of
\* the path; every other variable is in the output as it was.
C7_OnlyThisPrefixed ==
  mdpc = "done" /\ mdOut # Undefined =>
    /\ Len(mdOut.of) = Len(Included)
    /\ \A i \in 1..Len(Included) :
         LET tok == Included[i] IN
         IsVar(tok) =>
           IF StartsWithThis(tok.s)
             THEN /\ mdOut.of[i] # tok
                  /\ KeysOf(tok.s) \in DOMAIN Config
                       => mdOut.of[i] = Text(Config[KeysOf(tok.s)])
             ELSE mdOut.of[i] = tok

\* C8, as claimed: a {{ this.* }} variable naming a field that does not
\* exist, at whatever position of its path, makes compile.md log an error and
\* return no output.
C8_MissingFieldIsError ==
  mdpc = "done" /\ (\E tok \in ThisVars : MissingField(tok.s))
    => mdOut = Undefined /\ mdLog # {}

\* C8, amended: a {{ this.* }} variable naming a field that does not exist
\* before the last position of its path makes compile.md log an error and
\* return no output, and compile.md still returns; a variable whose path
\* lacks only its last field is replaced by the text undefined.
C8_MissingIntermediateIsError ==
  mdpc = "done" =>
    /\ (\E tok \in ThisVars : MissingIntermediate(tok.s))
         => mdOut = Undefined /\ mdLog # {}
    /\ mdOut # Undefined =>
         /\ Len(mdOut.of) = Len(Included)
         /\ \A i \in 1..Len(Included) :
              Included[i] \in ThisVars /\ MissingField(Included[i].s)
                => mdOut.of[i] = Text(<<"undefined">>)

\* compile.md has ended on {{ this.x.y }}, config.x missing: logged, undefined.
C8_Witness ==
  /\ mdpc = "done"
  /\ Var(Dot(Dot(This, <<"x">>), <<"y">>)) \in ThisVars
  /\ mdOut = Undefined
  /\ mdLog # {}


(***************************************************************************)
(* Properties of the locals of compile.slm.                                *)
(***************************************************************************)
\* C4, as claimed: the mapping a caller passes as locals holds, after the
\* compiles, exactly the entries it held before: no key of the
\* configuration and no include is added to it.
C4_LocalsUnchanged == slmpc # "idle" => heap["arg"] = passed.obj

=============================================================================
